---------------------------- MODULE Spec2Model ----------------------------
(***************************************************************************)
(* A model of the Blokus rules engine (src/src/blokus.py): the grid, the   *)
(* per-player played-lists, the retired set and the current-player cursor, *)
(* with one action per public operation of class Blokus.  The Shape/Piece  *)
(* geometry (piece.py, shape_definitions.py) is modelled from the          *)
(* specification text, section 4.1 and 4.2.  The grid serialization        *)
(* (grid.py), the bot simulation (bot.py) and the key loop of the text     *)
(* interface (tui.py) are modelled on top of the engine, each with a       *)
(* specification of its own.                                               *)
(***************************************************************************)
EXTENDS Integers, Sequences, FiniteSets, TLC

(***************************************************************************)
(* Configuration: the TUI's "mini" game mode, 1 or 2 players on a 5 x 5    *)
(* board with start positions (0,0) and (4,4).                             *)
(***************************************************************************)
Size == 5

MaxPlayers == 2

StartPositions == {<<0, 0>>, <<Size - 1, Size - 1>>}

(* Bounds of the model: how many kinds of the catalog are in play, and how *)
(* far off the board a caller's anchor may lie.                           *)
NumKinds == 2

AnchorMargin == 1

(* Serialized grids have up to MaxSide rows and columns and up to MaxMarks  *)
(* occupied cells.                                                         *)
MaxSide == 2

MaxMarks == 2

(***************************************************************************)
(* Shape catalog.  The kinds in the order of the ShapeKind enumeration;    *)
(* the catalog in play is its first NumKinds kinds.                        *)
(***************************************************************************)
KindOrder == <<"ONE", "TWO", "THREE", "C", "FOUR", "SEVEN">>

Kinds == {KindOrder[i] : i \in 1..NumKinds}

Canonical(k) ==
    CASE k = "ONE"   -> {<<0, 0>>}
      [] k = "TWO"   -> {<<0, 0>>, <<0, 1>>}
      [] k = "THREE" -> {<<0, 0>>, <<0, 1>>, <<0, 2>>}
      [] k = "C"     -> {<<0, 0>>, <<0, 1>>, <<1, 0>>}
      [] k = "FOUR"  -> {<<0, 0>>, <<0, 1>>, <<0, 2>>, <<0, 3>>}
      [] k = "SEVEN" -> {<<0, 0>>, <<0, 1>>, <<1, 1>>, <<2, 1>>}

(***************************************************************************)
(* Geometry engine: orientations and anchor-relative squares.              *)
(***************************************************************************)
MinOf(S) == CHOOSE m \in S : \A x \in S : m <= x

Normalize(offs) ==
    LET mr == MinOf({o[1] : o \in offs})
        mc == MinOf({o[2] : o \in offs})
    IN  {<<o[1] - mr, o[2] - mc>> : o \in offs}

RotateRight(offs) == Normalize({<<o[2], -o[1]>> : o \in offs})

RotateLeft(offs) == Normalize({<<-o[2], o[1]>> : o \in offs})

FlipHorizontally(offs) == Normalize({<<o[1], -o[2]>> : o \in offs})

RECURSIVE Rotations(_, _)
Rotations(offs, n) ==
    IF n = 0 THEN {offs} ELSE {offs} \cup Rotations(RotateRight(offs), n - 1)

Orientations(k) ==
    Rotations(Normalize(Canonical(k)), 3)
        \cup Rotations(FlipHorizontally(Canonical(k)), 3)

NoAnchor == <<>>

(* self.piece = None: no pending piece *)
NoPiece == [kind |-> "NONE", offs |-> {}, anchor |-> NoAnchor]

NewPiece(k) == [kind |-> k, offs |-> Normalize(Canonical(k)), anchor |-> NoAnchor]

SetAnchor(piece, point) == [piece EXCEPT !.anchor = point]

Squares(piece) ==
    {<<piece.anchor[1] + o[1], piece.anchor[2] + o[2]>> : o \in piece.offs}

CardinalNeighbors(piece) ==
    (UNION {{<<s[1] - 1, s[2]>>, <<s[1] + 1, s[2]>>,
             <<s[1], s[2] - 1>>, <<s[1], s[2] + 1>>} : s \in Squares(piece)})
        \ Squares(piece)

IntercardinalNeighbors(piece) ==
    ((UNION {{<<s[1] - 1, s[2] - 1>>, <<s[1] - 1, s[2] + 1>>,
              <<s[1] + 1, s[2] - 1>>, <<s[1] + 1, s[2] + 1>>} : s \in Squares(piece)})
        \ Squares(piece)) \ CardinalNeighbors(piece)

(***************************************************************************)
(* State of a Blokus object.                                               *)
(***************************************************************************)
VARIABLES num_players, start_positions, curr_player, shapes_played, grid, retired

(* The grid serialization of grid.py: the Grid given to grid_to_string,    *)
(* the string it returns, and what string_to_grid makes of that string.    *)
VARIABLES snapshot, text, parsed

game_vars ==
    <<num_players, start_positions, curr_player, shapes_played, grid, retired>>

text_vars == <<snapshot, text, parsed>>

(* A call of progress_turn in progress: the statement it is at ("idle"     *)
(* between calls) and the number of times the call has assigned the cursor *)
(* so far.                                                                 *)
VARIABLES turn_pc, moves

turn_vars == <<turn_pc, moves>>

(* The state of a BlokusTUI object beside its engine: the pending piece,   *)
(* the dictionary of the cells it draws as placed (cell to colour), and    *)
(* whether handle_user_input is still in its loop.                         *)
VARIABLES tui_piece, placed_pieces, tui_running

tui_vars == <<tui_piece, placed_pieces, tui_running>>

(* run_bot_simulation: its position in the game it is running ("loop" at  *)
(* the test of the while loop, "done" once the winners are tallied, "none" *)
(* where no simulation runs), the index of that game, and the tallies.     *)
VARIABLES bot_pc, game, wins_count, ties_count

bot_vars == <<bot_pc, game, wins_count, ties_count>>

vars == <<game_vars, text_vars, turn_vars, tui_vars, bot_vars>>

Coords == 0..(Size - 1)

Cells == Coords \X Coords

NoCell == <<0, "NONE">>

Range(seq) == {seq[i] : i \in 1..Len(seq)}

(* remaining_shapes(player), as the set of kinds not yet in the played-list *)
RemainingShapes(played, player) == Kinds \ Range(played[player])

(***************************************************************************)
(* game_over: the scan over players 1..n that repoints the cursor at every *)
(* player it visits and restores the saved cursor only on the False exit.  *)
(* The result is the returned boolean and the cursor the scan leaves.      *)
(***************************************************************************)
RECURSIVE GameOverScan(_, _, _, _, _)
GameOverScan(n, played, rtd, player, saved) ==
    IF player > n
    THEN [res |-> TRUE, cur |-> player - 1]
    ELSE IF player \in rtd \/ RemainingShapes(played, player) = {}
         THEN GameOverScan(n, played, rtd, player + 1, saved)
         ELSE [res |-> FALSE, cur |-> saved]

(* A scan that starts at player 2. *)
GameOverSkipsFirstPlayer(n, played, rtd, c) == GameOverScan(n, played, rtd, 2, c)

(* A scan that restores the saved cursor on both exits. *)
GameOverAlwaysRestores(n, played, rtd, c) ==
    [res |-> GameOverScan(n, played, rtd, 1, c).res, cur |-> c]

GameOver(n, played, rtd, c) == GameOverScan(n, played, rtd, 1, c)

(***************************************************************************)
(* progress_turn: one step of the cursor, then the while loop; every       *)
(* evaluation of game_over in the loop condition is logged with the cursor *)
(* before and after it.                                                    *)
(***************************************************************************)
(* A loop that never skips. *)
TurnLoopNoSkip(n, played, rtd, c, log) == [cur |-> c, scans |-> log]

RECURSIVE TurnLoop(_, _, _, _, _)
TurnLoop(n, played, rtd, c, log) ==
    IF c \in rtd \/ RemainingShapes(played, c) = {}
    THEN LET go   == GameOver(n, played, rtd, c)
             log2 == Append(log, [before |-> c, after |-> go.cur, res |-> go.res])
         IN  IF ~go.res
             THEN TurnLoop(n, played, rtd, (go.cur % n) + 1, log2)
             ELSE [cur |-> go.cur, scans |-> log2]
    ELSE [cur |-> c, scans |-> log]

(* A progress_turn without the first step of the cursor. *)
ProgressTurnFromCurrent(n, played, rtd, c) == TurnLoop(n, played, rtd, c, <<>>)

ProgressTurn(n, played, rtd, c) == TurnLoop(n, played, rtd, (c % n) + 1, <<>>)

(***************************************************************************)
(* Collision tests and the legality rule.  Precheck is the pair of raising *)
(* checks every one of them starts with; the operators after it are the    *)
(* bodies that follow the checks.                                          *)
(***************************************************************************)
(* Raising checks without the held-kind check. *)
PrecheckAnchorOnly(piece) ==
    IF piece.anchor = NoAnchor THEN "raise_unanchored" ELSE "ok"

(* Raising checks in the other order. *)
PrecheckKindFirst(piece) ==
    IF piece.kind \notin RemainingShapes(shapes_played, curr_player)
    THEN "raise_invalid_piece"
    ELSE IF piece.anchor = NoAnchor THEN "raise_unanchored"
         ELSE "ok"

Precheck(piece) ==
    IF piece.anchor = NoAnchor THEN "raise_unanchored"
    ELSE IF piece.kind \notin RemainingShapes(shapes_played, curr_player)
         THEN "raise_invalid_piece"
         ELSE "ok"

(* A wall test that only looks for coordinates that are too large. *)
AnyWallCollisionsHighOnly(piece) ==
    \E s \in Squares(piece) : s[1] >= Size \/ s[2] >= Size

AnyWallCollisions(piece) ==
    \E s \in Squares(piece) : s[1] < 0 \/ s[1] >= Size \/ s[2] < 0 \/ s[2] >= Size

(* A collision test that forgets the occupied cells. *)
AnyCollisionsWallsOnly(piece) == AnyWallCollisions(piece)

AnyCollisions(piece) ==
    \/ AnyWallCollisions(piece)
    \/ \E s \in Squares(piece) : grid[s[1]][s[2]] # NoCell

(* An index that wraps around the board the way a negative list index      *)
(* does, instead of being clamped.                                         *)
ClampWrapping(v) == v % Size

Clamp(v) == IF v < 0 THEN 0 ELSE IF v > Size - 1 THEN Size - 1 ELSE v

(* A start test that looks at the anchor square only. *)
TouchesStartAtAnchor(piece) == piece.anchor \in start_positions

TouchesStart(piece) == \E s \in Squares(piece) : s \in start_positions

(* An adjacency rule without the edges rule. *)
CornersOnly(piece) ==
    \E c \in IntercardinalNeighbors(piece) :
        grid[Clamp(c[1])][Clamp(c[2])][1] = curr_player

EdgesAndCorners(piece) ==
    /\ ~ \E e \in CardinalNeighbors(piece) :
            grid[Clamp(e[1])][Clamp(e[2])][1] = curr_player
    /\ \E c \in IntercardinalNeighbors(piece) :
            grid[Clamp(c[1])][Clamp(c[2])][1] = curr_player

LegalToPlace(piece) ==
    IF AnyCollisions(piece) THEN FALSE
    ELSE IF Len(shapes_played[curr_player]) <= 0
         THEN TouchesStart(piece)
         ELSE EdgesAndCorners(piece)

(***************************************************************************)
(* The three boolean queries as a caller sees them: the raising checks,    *)
(* then the answer of the body.  None of them assigns to the object.       *)
(***************************************************************************)
Answer(b) == IF b THEN "true" ELSE "false"

any_wall_collisions(piece) ==
    LET raised == Precheck(piece)
    IN  IF raised # "ok" THEN raised ELSE Answer(AnyWallCollisions(piece))

any_collisions(piece) ==
    LET raised == Precheck(piece)
    IN  IF raised # "ok" THEN raised ELSE Answer(AnyCollisions(piece))

legal_to_place(piece) ==
    LET raised == Precheck(piece)
    IN  IF raised # "ok" THEN raised ELSE Answer(LegalToPlace(piece))

(***************************************************************************)
(* The outcome of a call: what it returns ("raise_..." when it raises),    *)
(* the grid cells it writes and the pair it writes there, the kinds it     *)
(* appends to the current player's played-list, the players it adds to the *)
(* retired set, the cursor it leaves and the game_over evaluations it made.*)
(***************************************************************************)
Outcome(r, cells, mark, kinds, rtd, c, log) ==
    [ret |-> r, writes |-> cells, mark |-> mark, appends |-> kinds,
     retires |-> rtd, cur |-> c, scans |-> log]

Untouched(r) == Outcome(r, {}, NoCell, <<>>, {}, curr_player, <<>>)

(* A rejection that still advances the turn. *)
RejectedAdvancesTurn ==
    LET pt == ProgressTurn(num_players, shapes_played, retired, curr_player)
    IN  Outcome("false", {}, NoCell, <<>>, {}, pt.cur, pt.scans)

Rejected == Untouched("false")

(* A placement that forgets to record the kind as played. *)
PlacedWithoutAppend(piece) ==
    LET pt == ProgressTurn(num_players, shapes_played, retired, curr_player)
    IN  Outcome("true", Squares(piece), <<curr_player, piece.kind>>,
                <<>>, {}, pt.cur, pt.scans)

Placed(piece) ==
    LET played == [shapes_played EXCEPT ![curr_player] = Append(@, piece.kind)]
        pt     == ProgressTurn(num_players, played, retired, curr_player)
    IN  Outcome("true", Squares(piece), <<curr_player, piece.kind>>,
                <<piece.kind>>, {}, pt.cur, pt.scans)

Skipped ==
    LET pt == ProgressTurn(num_players, shapes_played, retired, curr_player)
    IN  Outcome("true", {}, NoCell, <<>>, {}, pt.cur, pt.scans)

(* A maybe_place that makes the raising checks before it looks at the      *)
(* retired set.                                                            *)
MaybePlaceChecksFirst(piece) ==
    IF Precheck(piece) # "ok" THEN Untouched(Precheck(piece))
    ELSE IF curr_player \in retired THEN Skipped
    ELSE IF ~LegalToPlace(piece) THEN Rejected
    ELSE Placed(piece)

MaybePlace(piece) ==
    IF curr_player \notin retired
    THEN LET raised == Precheck(piece)
         IN  IF raised # "ok" THEN Untouched(raised)
             ELSE IF ~LegalToPlace(piece) THEN Rejected
             ELSE Placed(piece)
    ELSE Skipped

(* A retire that only advances the turn. *)
RetireWithoutAdd ==
    LET pt == ProgressTurn(num_players, shapes_played, retired, curr_player)
    IN  Outcome("none", {}, NoCell, <<>>, {}, pt.cur, pt.scans)

Retire ==
    LET pt == ProgressTurn(num_players, shapes_played,
                           retired \cup {curr_player}, curr_player)
    IN  Outcome("none", {}, NoCell, <<>>, {curr_player}, pt.cur, pt.scans)

(* A game_over that never restores the cursor: the False exit leaves it on *)
(* the player at which the scan returned.                                  *)
GameOverPropertyNoRestore ==
    LET go    == GameOver(num_players, shapes_played, retired, curr_player)
        first == CHOOSE p \in 1..num_players :
                    /\ p \notin retired
                    /\ RemainingShapes(shapes_played, p) # {}
                    /\ \A q \in 1..(p - 1) :
                          q \in retired \/ RemainingShapes(shapes_played, q) = {}
        left  == IF go.res THEN go.cur ELSE first
    IN  Outcome(IF go.res THEN "true" ELSE "false", {}, NoCell, <<>>, {}, left,
                <<[before |-> curr_player, after |-> left, res |-> go.res]>>)

GameOverProperty ==
    LET go == GameOver(num_players, shapes_played, retired, curr_player)
    IN  Outcome(IF go.res THEN "true" ELSE "false", {}, NoCell, <<>>, {}, go.cur,
                <<[before |-> curr_player, after |-> go.cur, res |-> go.res]>>)

(* get_score: the penalty for the kinds left, or the completion bonus. *)
RECURSIVE SumSquares(_)
SumSquares(ks) ==
    IF ks = {} THEN 0
    ELSE LET k == CHOOSE x \in ks : TRUE
         IN  Cardinality(Canonical(k)) + SumSquares(ks \ {k})

(* A completion bonus decided by the first played kind instead of the last. *)
GetScoreBonusByFirst(player) ==
    IF RemainingShapes(shapes_played, player) # {}
    THEN 0 - SumSquares(RemainingShapes(shapes_played, player))
    ELSE IF Cardinality(Canonical(shapes_played[player][1])) = 1
         THEN 20
         ELSE 15

GetScore(player) ==
    IF RemainingShapes(shapes_played, player) # {}
    THEN 0 - SumSquares(RemainingShapes(shapes_played, player))
    ELSE IF Cardinality(Canonical(shapes_played[player][Len(shapes_played[player])])) = 1
         THEN 20
         ELSE 15

(* The Optional[list[int]] winners returns: None, or a list. *)
None == [none |-> TRUE, list |-> <<>>]

Some(l) == [none |-> FALSE, list |-> l]

(* A winners that reports only the first player with the maximum score. *)
WinnersFirstBestOnly ==
    LET go     == GameOverProperty
        scores == [p \in 1..num_players |-> GetScore(p)]
        best   == CHOOSE m \in Range(scores) : \A x \in Range(scores) : x <= m
    IN  [go EXCEPT !.ret =
            IF go.ret = "true"
            THEN Some(<<CHOOSE p \in 1..num_players :
                          scores[p] = best /\ \A q \in 1..(p - 1) : scores[q] # best>>)
            ELSE None]

(* winners reads game_over, then the scores: None, or the list of players  *)
(* with the maximum score in ascending order.                              *)
WinnersProperty ==
    LET go     == GameOverProperty
        scores == [p \in 1..num_players |-> GetScore(p)]
        best   == CHOOSE m \in Range(scores) : \A x \in Range(scores) : x <= m
    IN  [go EXCEPT !.ret =
            IF go.ret = "true"
            THEN Some(SelectSeq([p \in 1..num_players |-> p],
                                LAMBDA p : scores[p] = best))
            ELSE None]

(***************************************************************************)
(* The grid indices the code subscripts self._grid with: any_collisions    *)
(* reads the piece's squares once the wall test has passed; legal_to_place *)
(* reads, after any_collisions, the clamped neighbours in the edges and    *)
(* corners branch; maybe_place reads what legal_to_place reads and writes  *)
(* the piece's squares.                                                    *)
(***************************************************************************)
AnyCollisionsIndices(piece) ==
    IF AnyWallCollisions(piece) THEN {} ELSE Squares(piece)

LegalToPlaceIndices(piece) ==
    AnyCollisionsIndices(piece) \cup
        (IF AnyCollisions(piece) \/ Len(shapes_played[curr_player]) <= 0
         THEN {}
         ELSE {<<Clamp(n[1]), Clamp(n[2])>> :
                  n \in CardinalNeighbors(piece) \cup IntercardinalNeighbors(piece)})

MaybePlaceIndices(piece) ==
    IF curr_player \in retired THEN {}
    ELSE LegalToPlaceIndices(piece) \cup MaybePlace(piece).writes

(* The state an outcome leaves, component by component. *)
GridAfter(o) ==
    [x \in Coords |-> [y \in Coords |->
        IF <<x, y>> \in o.writes THEN o.mark ELSE grid[x][y]]]

PlayedAfter(o) == [shapes_played EXCEPT ![curr_player] = @ \o o.appends]

RetiredAfter(o) == retired \cup o.retires

(***************************************************************************)
(* available_moves: for every remaining kind, a fresh Piece of that kind   *)
(* at every anchor of the board that is legal to place.                    *)
(***************************************************************************)
(* An available_moves that offers every anchored piece of a remaining     *)
(* kind, legal or not.                                                     *)
AvailableMovesUnchecked ==
    {SetAnchor(NewPiece(k), a) :
        k \in RemainingShapes(shapes_played, curr_player), a \in Cells}

AvailableMoves ==
    {pc \in {SetAnchor(NewPiece(k), a) :
                k \in RemainingShapes(shapes_played, curr_player), a \in Cells} :
        LegalToPlace(pc)}

(***************************************************************************)
(* The pieces a caller may pass: every kind of the catalog in play, in     *)
(* every orientation, unanchored or anchored on the board or up to         *)
(* AnchorMargin cells off it.                                              *)
(***************************************************************************)
AnchorInputs ==
    (((0 - AnchorMargin)..(Size - 1 + AnchorMargin))
        \X ((0 - AnchorMargin)..(Size - 1 + AnchorMargin))) \cup {NoAnchor}

PieceInputs ==
    UNION {{[kind |-> k, offs |-> o, anchor |-> a] :
                o \in Orientations(k), a \in AnchorInputs} : k \in Kinds}

(***************************************************************************)
(* grid.py.  A Grid is a list of rows, a row a list of cells, a cell None  *)
(* or a pair (player, kind); a string is the sequence of its characters.   *)
(***************************************************************************)
NoText == <<>>

NotParsed == [done |-> FALSE, raised |-> FALSE, cells |-> <<>>]

Digits == <<"0", "1", "2", "3", "4", "5", "6", "7", "8", "9">>

(* str(player) for a player id of one digit, and int(char) *)
StrOf(player) == Digits[player + 1]

IsDigit(ch) == \E d \in 1..Len(Digits) : Digits[d] = ch

IntOf(ch) == (CHOOSE d \in 1..Len(Digits) : Digits[d] = ch) - 1

Repeat(ch, n) == [i \in 1..n |-> ch]

RECURSIVE Concat(_)
Concat(seqs) == IF seqs = <<>> THEN <<>> ELSE Head(seqs) \o Concat(Tail(seqs))

(* '\n'.join(result) *)
RECURSIVE Join(_)
Join(result) ==
    IF result = <<>> THEN <<>>
    ELSE IF Len(result) = 1 THEN Head(result)
    ELSE Head(result) \o <<"\n">> \o Join(Tail(result))

(* A cell rendered in one column, without the space after it. *)
CellTextNarrow(cell) == IF cell = NoCell THEN <<" ">> ELSE <<StrOf(cell[1])>>

CellText(cell) == IF cell = NoCell THEN <<" ", " ">> ELSE <<StrOf(cell[1]), " ">>

RowText(row) ==
    <<"|">> \o Concat([i \in 1..Len(row) |-> CellText(row[i])]) \o <<"|">>

GridToString(g) ==
    LET height == Len(g)
        width  == IF height > 0 THEN Len(g[1]) ELSE 0
        frame  == <<"+">> \o Repeat("-", width * 2) \o <<"+">>
    IN  Join(<<frame>> \o [r \in 1..height |-> RowText(g[r])] \o <<frame>>)

(* s.strip(): without the whitespace at both ends *)
Whitespace == {" ", "\n"}

RECURSIVE StripLeft(_)
StripLeft(str) ==
    IF str # <<>> /\ Head(str) \in Whitespace THEN StripLeft(Tail(str)) ELSE str

RECURSIVE StripRight(_)
StripRight(str) ==
    IF str # <<>> /\ str[Len(str)] \in Whitespace
    THEN StripRight(SubSeq(str, 1, Len(str) - 1))
    ELSE str

Strip(str) == StripRight(StripLeft(str))

(* .split('\n'): the pieces between the newlines, at least one *)
RECURSIVE SplitLines(_, _)
SplitLines(str, piece) ==
    IF str = <<>> THEN <<piece>>
    ELSE IF Head(str) = "\n" THEN <<piece>> \o SplitLines(Tail(str), <<>>)
    ELSE SplitLines(Tail(str), Append(piece, Head(str)))

(* lines[1:-1] *)
Inner(lines) == SubSeq(lines, 2, Len(lines) - 1)

(* The characters line[i] for i in range(1, len(line) - 1, 2), 0-based. *)
ReadChars(ln) ==
    LET n == IF Len(ln) >= 2 THEN (Len(ln) - 1) \div 2 ELSE 0
    IN  [k \in 1..n |-> ln[2 * k]]

(* One row: None for a space, (int(char), ShapeKind.One) otherwise. *)
ParseRow(ln) ==
    [k \in 1..Len(ReadChars(ln)) |->
        IF ReadChars(ln)[k] = " " THEN NoCell
        ELSE <<IntOf(ReadChars(ln)[k]), "ONE">>]

StringToGrid(str) ==
    LET lines == Inner(SplitLines(Strip(str), <<>>))
    IN  IF \E r \in 1..Len(lines) : \E k \in 1..Len(ReadChars(lines[r])) :
              ReadChars(lines[r])[k] # " " /\ ~IsDigit(ReadChars(lines[r])[k])
        THEN [done |-> TRUE, raised |-> TRUE, cells |-> <<>>]
        ELSE [done |-> TRUE, raised |-> FALSE,
              cells |-> [r \in 1..Len(lines) |-> ParseRow(lines[r])]]

(***************************************************************************)
(* The grids handed to grid_to_string: rectangles of up to MaxSide rows    *)
(* and columns with at most MaxMarks occupied cells, each holding a player *)
(* id of one digit and a kind.                                             *)
(***************************************************************************)
SnapshotCells == {<<1, "ONE">>, <<2, "TWO">>, <<9, "TWO">>}

Rectangle(height, width, marks) ==
    [r \in 1..height |-> [c \in 1..width |->
        IF <<r, c>> \in DOMAIN marks THEN marks[<<r, c>>] ELSE NoCell]]

GridInputs ==
    UNION {UNION {{Rectangle(height, width, marks) :
                      marks \in [occupied -> SnapshotCells]} :
                  occupied \in {o \in SUBSET ((1..height) \X (1..width)) :
                                    Cardinality(o) <= MaxMarks}} :
           height \in 0..MaxSide, width \in 0..MaxSide}

(***************************************************************************)
(* Construction, and one action per public operation that assigns to the   *)
(* object: the state the call leaves becomes the next state.               *)
(* available_moves and get_score assign nothing; they are the operators    *)
(* above.                                                                  *)
(***************************************************************************)
Init ==
    /\ num_players \in 1..MaxPlayers
    /\ start_positions = StartPositions
    /\ curr_player = 1
    /\ shapes_played = [p \in 1..num_players |-> <<>>]
    /\ grid = [x \in Coords |-> [y \in Coords |-> NoCell]]
    /\ retired = {}
    /\ snapshot = <<>> /\ text = NoText /\ parsed = NotParsed
    /\ turn_pc = "idle" /\ moves = 0
    /\ tui_piece = NoPiece /\ placed_pieces = <<>> /\ tui_running = FALSE
    /\ bot_pc = "none" /\ game = 0 /\ wins_count = <<>> /\ ties_count = 0

Becomes(o) ==
    /\ grid' = GridAfter(o)
    /\ shapes_played' = PlayedAfter(o)
    /\ retired' = RetiredAfter(o)
    /\ curr_player' = o.cur
    /\ UNCHANGED <<num_players, start_positions>>
    /\ UNCHANGED <<text_vars, turn_vars, tui_vars, bot_vars>>

CallMaybePlace ==
    \E o \in {MaybePlace(piece) : piece \in PieceInputs} : Becomes(o)

CallRetire == \E o \in {Retire} : Becomes(o)

CallGameOver == \E o \in {GameOverProperty} : Becomes(o)

CallWinners ==
    \E o \in {WinnersProperty} : Becomes(o)

Next ==
    \/ CallMaybePlace
    \/ CallRetire
    \/ CallGameOver
    \/ CallWinners

Spec == Init /\ [][Next]_vars

(* The game as a sequence of maybe_place and retire calls only. *)
PlayNext == CallMaybePlace \/ CallRetire

PlaySpec == Init /\ [][PlayNext]_vars

(***************************************************************************)
(* The serialization on its own: a grid is drawn, grid_to_string renders   *)
(* it, string_to_grid reads the rendering back.                            *)
(***************************************************************************)
GridInit ==
    /\ num_players = 1 /\ start_positions = StartPositions /\ curr_player = 1
    /\ shapes_played = [p \in 1..num_players |-> <<>>]
    /\ grid = [x \in Coords |-> [y \in Coords |-> NoCell]]
    /\ retired = {}
    /\ snapshot \in GridInputs /\ text = NoText /\ parsed = NotParsed
    /\ turn_pc = "idle" /\ moves = 0
    /\ tui_piece = NoPiece /\ placed_pieces = <<>> /\ tui_running = FALSE
    /\ bot_pc = "none" /\ game = 0 /\ wins_count = <<>> /\ ties_count = 0

CallGridToString ==
    /\ text = NoText
    /\ text' = GridToString(snapshot)
    /\ UNCHANGED <<game_vars, snapshot, parsed, turn_vars, tui_vars, bot_vars>>

CallStringToGrid ==
    /\ text # NoText /\ ~parsed.done
    /\ parsed' = StringToGrid(text)
    /\ UNCHANGED <<game_vars, snapshot, text, turn_vars, tui_vars, bot_vars>>

GridNext == CallGridToString \/ CallStringToGrid

GridSpec == GridInit /\ [][GridNext]_vars

(***************************************************************************)
(* Claims.                                                                 *)
(***************************************************************************)
PlacedCount(p) == Len(shapes_played[p])

Occupied == {c \in Cells : grid[c[1]][c[2]] # NoCell}

(* C1: a grid cell that is non-empty holds the same (player, kind) pair    *)
(* after every call, whatever the call (placing, rejected, raising,        *)
(* retire, a read): no cell is ever cleared or reassigned.                 *)
C1_OccupiedCellsAreStable ==
    [][\A x \in Coords, y \in Coords :
          grid[x][y] # NoCell => grid'[x][y] = grid[x][y]]_vars

(* A player's second piece lies on the board beside the first one, and a   *)
(* player has retired since.                                               *)
C1_Witness ==
    /\ \E p \in 1..num_players : PlacedCount(p) = 2
    /\ retired # {}
    /\ Cardinality(Occupied) >= 3

(* C2: for a current player who is not retired, maybe_place of an anchored *)
(* piece of a kind the player holds that is not legal to place returns     *)
(* false and leaves grid, played-lists, retired set and cursor as they     *)
(* were before the call.                                                   *)
C2_IllegalPlacementChangesNothing ==
    \A piece \in PieceInputs :
        (curr_player \notin retired /\ Precheck(piece) = "ok" /\ ~LegalToPlace(piece))
            => LET o == MaybePlace(piece)
               IN  /\ o.ret = "false"
                   /\ GridAfter(o) = grid
                   /\ PlayedAfter(o) = shapes_played
                   /\ RetiredAfter(o) = retired
                   /\ o.cur = curr_player

(* On a board that is not empty, player 2 holds the domino and is not      *)
(* retired, and maybe_place returns false for an on-board domino that      *)
(* collides with nothing.                                                  *)
C2_Witness ==
    /\ curr_player = 2 /\ 2 \notin retired /\ Occupied # {}
    /\ \E piece \in PieceInputs :
          /\ piece.kind = "TWO" /\ Precheck(piece) = "ok"
          /\ ~AnyCollisions(piece)
          /\ MaybePlace(piece).ret = "false"

(* C3: for a current player p who is not retired and a piece that is legal *)
(* to place, maybe_place returns true, sets exactly the piece's squares to *)
(* (p, kind) and no other cell, appends the kind to p's played-list only,  *)
(* leaves the retired set alone and leaves the cursor where progress_turn  *)
(* puts it on the state after the append.                                  *)
C3_LegalPlacementEffect ==
    \A piece \in PieceInputs :
        (curr_player \notin retired /\ Precheck(piece) = "ok" /\ LegalToPlace(piece))
            => LET o == MaybePlace(piece)
                   played == [p \in 1..num_players |->
                                 IF p = curr_player
                                 THEN shapes_played[p] \o <<piece.kind>>
                                 ELSE shapes_played[p]]
               IN  /\ o.ret = "true"
                   /\ \A x \in Coords, y \in Coords :
                         GridAfter(o)[x][y] =
                            IF <<x, y>> \in Squares(piece)
                            THEN <<curr_player, piece.kind>>
                            ELSE grid[x][y]
                   /\ PlayedAfter(o) = played
                   /\ RetiredAfter(o) = retired
                   /\ o.cur = ProgressTurn(num_players, played, retired, curr_player).cur

(* Player 2's domino lies on the grid with cells of player 1, and the      *)
(* current player has a further legal placement.                           *)
C3_Witness ==
    /\ \E c \in Occupied : grid[c[1]][c[2]] = <<2, "TWO">>
    /\ \E c \in Occupied : grid[c[1]][c[2]][1] = 1
    /\ shapes_played[2] = <<"TWO">>
    /\ curr_player \notin retired
    /\ \E piece \in PieceInputs : Precheck(piece) = "ok" /\ LegalToPlace(piece)

(* The piece's squares all lie on the board and on empty cells. *)
NoCollision(piece) ==
    \A s \in Squares(piece) : s \in Cells /\ grid[s[1]][s[2]] = NoCell

(* C4: for a current player who has played no shape yet, legal_to_place is *)
(* true exactly when the piece has no collision and one of its squares is  *)
(* a start position; nothing else about the grid plays a role.             *)
C4_FirstPlacementRule ==
    PlacedCount(curr_player) = 0 =>
        \A piece \in PieceInputs :
            Precheck(piece) = "ok" =>
                (LegalToPlace(piece) <=>
                    (NoCollision(piece) /\ Squares(piece) \cap start_positions # {}))

(* The current player has played nothing while another player's cells are  *)
(* on the board; one piece covering a start position with a square that is *)
(* not its anchor is legal, and a collision-free piece is not.             *)
C4_Witness ==
    /\ PlacedCount(curr_player) = 0 /\ Occupied # {}
    /\ \E piece \in PieceInputs :
          /\ Precheck(piece) = "ok" /\ LegalToPlace(piece)
          /\ piece.anchor \notin start_positions
    /\ \E piece \in PieceInputs :
          Precheck(piece) = "ok" /\ NoCollision(piece) /\ ~LegalToPlace(piece)

(* A cell of the board next to the piece along an edge, resp. across a     *)
(* corner, is owned by the current player.                                 *)
OwnEdgeTouch(piece) ==
    \E e \in CardinalNeighbors(piece) \cap Cells : grid[e[1]][e[2]][1] = curr_player

OwnCornerTouch(piece) ==
    \E c \in IntercardinalNeighbors(piece) \cap Cells :
        grid[c[1]][c[2]][1] = curr_player

(* C5: for a current player who has played at least one shape,             *)
(* legal_to_place is true exactly when the piece has no collision, no edge *)
(* neighbour cell is the current player's and some corner neighbour cell   *)
(* is; cells of other players do not enter the rule.                       *)
C5_LaterPlacementRule ==
    PlacedCount(curr_player) > 0 =>
        \A piece \in PieceInputs :
            Precheck(piece) = "ok" =>
                (LegalToPlace(piece) <=>
                    (NoCollision(piece) /\ ~OwnEdgeTouch(piece) /\ OwnCornerTouch(piece)))

(* A collision-free piece touches an own cell along an edge and another    *)
(* across a corner, and is rejected.                                       *)
C5_Witness ==
    /\ PlacedCount(curr_player) > 0 /\ curr_player \notin retired
    /\ \E piece \in PieceInputs :
          /\ Precheck(piece) = "ok" /\ NoCollision(piece)
          /\ OwnEdgeTouch(piece) /\ OwnCornerTouch(piece)
          /\ MaybePlace(piece).ret = "false"

(* C6: available_moves is exactly the set of anchored pieces, of every     *)
(* remaining kind of the current player in every orientation at every      *)
(* anchor of the board, that are legal to place.                           *)
C6_AvailableMovesExhaustive ==
    AvailableMoves =
        {piece \in PieceInputs :
            /\ piece.anchor \in Cells
            /\ piece.kind \in RemainingShapes(shapes_played, curr_player)
            /\ LegalToPlace(piece)}

(* Every player is retired or has played every kind of the catalog. *)
AllDone ==
    \A p \in 1..num_players : p \in retired \/ Kinds \subseteq Range(shapes_played[p])

(* C7: game_over returns true exactly when every player is retired or has  *)
(* no remaining kind.                                                      *)
C7_GameOverIffAllDone == (GameOverProperty.ret = "true") <=> AllDone

(* game_over returns true in a two-player game that one player left by     *)
(* retiring and the other by playing every kind.                           *)
C7_Witness ==
    /\ num_players = 2 /\ GameOverProperty.ret = "true"
    /\ \E p \in 1..num_players : p \in retired
    /\ \E p \in 1..num_players :
          p \notin retired /\ RemainingShapes(shapes_played, p) = {}

(* C8: reading game_over, or winners, leaves the cursor, the grid, the     *)
(* played-lists and the retired set as they were, whatever it returns.     *)
C8_GameOverReadKeepsState ==
    \A o \in {GameOverProperty, [WinnersProperty EXCEPT !.ret = "read"]} :
        /\ o.cur = curr_player
        /\ GridAfter(o) = grid
        /\ PlayedAfter(o) = shapes_played
        /\ RetiredAfter(o) = retired

(* game_over is read as true in a two-player game with pieces on the       *)
(* board.                                                                  *)
C8_Witness ==
    /\ num_players = 2 /\ AllDone /\ Occupied # {}
    /\ GameOverProperty.ret = "true"

(* C9: the game is over, or the cursor is a player of the game who is not  *)
(* retired and has a kind left.                                            *)
C9_CursorIsPlayable ==
    \/ AllDone
    \/ /\ curr_player \in 1..num_players
       /\ curr_player \notin retired
       /\ ~ (Kinds \subseteq Range(shapes_played[curr_player]))

(* Player 1 has retired, player 2 has placed a piece since and the turn is *)
(* player 2's again.                                                       *)
C9_Witness ==
    /\ num_players = 2 /\ 1 \in retired /\ ~AllDone
    /\ PlacedCount(2) > PlacedCount(1)
    /\ curr_player = 2

Playable(played, rtd, p) == p \notin rtd /\ ~ (Kinds \subseteq Range(played[p]))

(* The k-th player after c in the cyclic order c+1, ..., num_players, 1,   *)
(* ..., c.                                                                 *)
CyclicOrder(c, k) == ((c + k - 1) % num_players) + 1

(* C10: after a call that runs progress_turn (retire, a maybe_place that   *)
(* returns true), if the game is not over the cursor is the first player   *)
(* in cyclic order after the old cursor, ending with the old cursor        *)
(* itself, who is neither retired nor out of kinds.                        *)
C10_TurnOrder ==
    \A o \in {Retire} \cup {q \in {MaybePlace(piece) : piece \in PieceInputs} :
                               q.ret = "true"} :
        LET played == PlayedAfter(o)
            rtd    == RetiredAfter(o)
        IN  (\E p \in 1..num_players : Playable(played, rtd, p)) =>
                \E k \in 1..num_players :
                    /\ o.cur = CyclicOrder(curr_player, k)
                    /\ Playable(played, rtd, o.cur)
                    /\ \A j \in 1..(k - 1) :
                          ~Playable(played, rtd, CyclicOrder(curr_player, j))

(* In a two-player game player 1 has retired with nothing placed and       *)
(* player 2, who has kinds left, is the current player.                    *)
C10_Witness ==
    /\ num_players = 2 /\ retired = {1} /\ curr_player = 2
    /\ PlacedCount(1) = 0
    /\ RemainingShapes(shapes_played, 2) # {}


(* The square counts of the catalog kinds from index i on that are not in  *)
(* the played-list of player p, added up in catalog order.                 *)
RECURSIVE UnplayedSquaresFrom(_, _)
UnplayedSquaresFrom(p, i) ==
    IF i > NumKinds THEN 0
    ELSE (IF \E j \in 1..Len(shapes_played[p]) : shapes_played[p][j] = KindOrder[i]
          THEN 0
          ELSE Cardinality(Canonical(KindOrder[i])))
         + UnplayedSquaresFrom(p, i + 1)

(* C11: get_score(p) is minus the number of squares of p's unplayed kinds, *)
(* hence strictly negative, while p has an unplayed kind; once p has       *)
(* played every kind it is 20 if the last entry of the played-list is the  *)
(* 1-square shape and 15 otherwise.  Retired players score the same way.   *)
C11_ScoreRule ==
    \A p \in 1..num_players :
        IF \E k \in Kinds : \A j \in 1..Len(shapes_played[p]) : shapes_played[p][j] # k
        THEN GetScore(p) = 0 - UnplayedSquaresFrom(p, 1) /\ GetScore(p) < 0
        ELSE GetScore(p) = IF shapes_played[p][Len(shapes_played[p])] = "ONE"
                           THEN 20 ELSE 15

(* One player has played every kind, the 1-square shape first and another  *)
(* kind last, and scores 15; a retired player still holds kinds and has a  *)
(* negative score.                                                         *)
C11_Witness ==
    /\ \E p \in 1..num_players :
          /\ RemainingShapes(shapes_played, p) = {}
          /\ shapes_played[p][1] = "ONE" /\ GetScore(p) = 15
    /\ \E q \in retired :
          RemainingShapes(shapes_played, q) # {} /\ GetScore(q) < 0


(* C12: winners is None whenever the game is not over; when it is over,    *)
(* winners is a non-empty list in strictly ascending order whose members   *)
(* are exactly the players whose score no other player's score exceeds.    *)
C12_WinnersRule ==
    LET w == WinnersProperty.ret
    IN  IF ~AllDone
        THEN w.none
        ELSE /\ ~w.none
             /\ Len(w.list) > 0
             /\ \A i, j \in 1..Len(w.list) : i < j => w.list[i] < w.list[j]
             /\ Range(w.list) =
                    {p \in 1..num_players :
                        \A q \in 1..num_players : GetScore(q) <= GetScore(p)}

(* A finished two-player game with pieces on the board in which both       *)
(* players have the same score, and both are winners.                      *)
C12_Witness ==
    /\ num_players = 2 /\ AllDone /\ Occupied # {}
    /\ GetScore(1) = GetScore(2)
    /\ WinnersProperty.ret = Some(<<1, 2>>)


(* C13: when the current player is retired, maybe_place returns true for   *)
(* every piece, also an unanchored one and one of a kind the player no     *)
(* longer holds; it writes no cell, changes no played-list and no retired  *)
(* set, and leaves the cursor where progress_turn puts it.  (Every piece   *)
(* has the outcome of the unanchored 1-square piece, and that outcome is   *)
(* as described.)                                                          *)
C13_RetiredPlayerIsSkipped ==
    curr_player \in retired =>
        LET o == MaybePlace(NewPiece("ONE"))
        IN  /\ \A piece \in PieceInputs : MaybePlace(piece) = o
            /\ o.ret = "true"
            /\ GridAfter(o) = grid
            /\ PlayedAfter(o) = shapes_played
            /\ RetiredAfter(o) = retired
            /\ o.cur = ProgressTurn(num_players, shapes_played,
                                    retired, curr_player).cur

(* The current player is retired and has played a kind before; an          *)
(* unanchored piece and an anchored piece of the played kind are both      *)
(* answered with true.                                                     *)
C13_Witness ==
    /\ curr_player \in retired /\ PlacedCount(curr_player) > 0
    /\ \E piece \in PieceInputs :
          Precheck(piece) = "raise_unanchored" /\ MaybePlace(piece).ret = "true"
    /\ \E piece \in PieceInputs :
          /\ piece.anchor # NoAnchor
          /\ piece.kind \notin RemainingShapes(shapes_played, curr_player)
          /\ MaybePlace(piece).ret = "true"


(* C14: no played-list contains a kind twice, and maybe_place appends      *)
(* nothing for a piece whose kind the current player has already played.   *)
C14_KindsPlayedOnce ==
    /\ \A p \in 1..num_players :
          \A i, j \in 1..Len(shapes_played[p]) :
              i # j => shapes_played[p][i] # shapes_played[p][j]
    /\ \A piece \in PieceInputs :
          (\E i \in 1..Len(shapes_played[curr_player]) :
                shapes_played[curr_player][i] = piece.kind)
              => MaybePlace(piece).appends = <<>>

(* The current player, not retired, has played a kind; a piece of that     *)
(* kind that fits the board and the adjacency rule is not accepted.  Some  *)
(* player has played two kinds.                                            *)
C14_Witness ==
    /\ curr_player \notin retired
    /\ \E p \in 1..num_players : PlacedCount(p) >= 2
    /\ \E piece \in PieceInputs :
          /\ piece.anchor # NoAnchor
          /\ piece.kind \in Range(shapes_played[curr_player])
          /\ NoCollision(piece) /\ ~OwnEdgeTouch(piece) /\ OwnCornerTouch(piece)
          /\ MaybePlace(piece).ret = "raise_invalid_piece"


(* What retire() does in the current state: the retired set gains the      *)
(* current player and nothing else, the grid and the played-lists stay,    *)
(* and the cursor is where progress_turn puts it once the player is in the *)
(* set; for an already retired current player only the cursor can change.  *)
RetireEffect ==
    LET o == Retire
    IN  /\ RetiredAfter(o) = retired \cup {curr_player}
        /\ GridAfter(o) = grid
        /\ PlayedAfter(o) = shapes_played
        /\ o.cur = ProgressTurn(num_players, shapes_played,
                                retired \cup {curr_player}, curr_player).cur
        /\ curr_player \in retired => RetiredAfter(o) = retired

(* C15: retire() adds the current player to the retired set, leaves the    *)
(* grid and every played-list unchanged and advances the turn with         *)
(* progress_turn; no step of the game ever removes a player from the       *)
(* retired set; retiring an already retired current player changes at most *)
(* the cursor.                                                             *)
C15_RetireIsIrrevocable == [](RetireEffect) /\ [][retired \subseteq retired']_vars

(* Both players of a two-player game are retired, one of them after        *)
(* placing a piece; the current player is retired.                         *)
C15_Witness ==
    /\ num_players = 2 /\ retired = {1, 2} /\ Occupied # {}
    /\ curr_player \in retired


(* C16: any_wall_collisions, any_collisions and legal_to_place, and        *)
(* maybe_place for a current player who is not retired, raise for an       *)
(* unanchored piece; for an anchored piece of a kind the current player    *)
(* has already played they raise the invalid-piece error; a piece with     *)
(* both faults gets the unanchored error; otherwise they answer with a     *)
(* boolean.  A raising maybe_place leaves the whole state as it was: its   *)
(* outcome is the one that touches nothing, and that outcome leaves the    *)
(* grid, the played-lists, the retired set and the cursor unchanged.       *)
C16_RaisingChecks ==
    /\ \A r \in {"raise_unanchored", "raise_invalid_piece"} :
          LET o == Untouched(r)
          IN  /\ GridAfter(o) = grid
              /\ PlayedAfter(o) = shapes_played
              /\ RetiredAfter(o) = retired
              /\ o.cur = curr_player
    /\ \A piece \in PieceInputs :
        LET o        == MaybePlace(piece)
            answers  == {any_wall_collisions(piece), any_collisions(piece),
                         legal_to_place(piece)}
                        \cup (IF curr_player \notin retired THEN {o.ret} ELSE {})
            expected == IF piece.anchor = NoAnchor THEN "raise_unanchored"
                        ELSE IF \E i \in 1..Len(shapes_played[curr_player]) :
                                    shapes_played[curr_player][i] = piece.kind
                             THEN "raise_invalid_piece"
                             ELSE "boolean"
        IN  IF expected = "boolean"
            THEN answers \subseteq {"true", "false"}
            ELSE /\ answers = {expected}
                 /\ curr_player \notin retired => o = Untouched(expected)

(* The current player, not retired, has played a kind and holds another:   *)
(* an unanchored piece of the played kind, an anchored piece of the played *)
(* kind and an anchored piece of the held kind get the three answers.      *)
C16_Witness ==
    /\ curr_player \notin retired
    /\ RemainingShapes(shapes_played, curr_player) # {}
    /\ \E piece \in PieceInputs :
          /\ piece.anchor = NoAnchor
          /\ piece.kind \in Range(shapes_played[curr_player])
          /\ MaybePlace(piece).ret = "raise_unanchored"
    /\ \E piece \in PieceInputs :
          /\ piece.anchor # NoAnchor
          /\ legal_to_place(piece) = "raise_invalid_piece"
    /\ \E piece \in PieceInputs : any_collisions(piece) = "false"


(* C17: for an anchored piece of a kind the current player holds, at any   *)
(* anchor on or off the board, any_collisions, legal_to_place and          *)
(* maybe_place subscript the grid only with indices of the board and       *)
(* answer with a boolean; a piece with a square off the board is a         *)
(* collision, is not legal, and is not placed.                             *)
C17_GridIndicesStayOnBoard ==
    \A piece \in PieceInputs :
        Precheck(piece) = "ok" =>
            LET o  == MaybePlace(piece)
                ac == any_collisions(piece)
                lp == legal_to_place(piece)
            IN  /\ AnyCollisionsIndices(piece) \subseteq Cells
                /\ IF curr_player \in retired
                   THEN LegalToPlaceIndices(piece) \subseteq Cells
                   ELSE MaybePlaceIndices(piece) \subseteq Cells
                /\ {ac, lp, o.ret} \subseteq {"true", "false"}
                /\ ~ (Squares(piece) \subseteq Cells) =>
                      /\ ac = "true"
                      /\ lp = "false"
                      /\ o.writes = {}
                      /\ curr_player \notin retired => o.ret = "false"

(* The current player has a piece on the board and holds a kind: one piece *)
(* of that kind lies partly off the board at a negative coordinate and is  *)
(* refused; another lies on free cells of the board with a neighbour       *)
(* coordinate off the board, so legal_to_place looks it up clamped.        *)
C17_Witness ==
    /\ curr_player \notin retired /\ PlacedCount(curr_player) > 0
    /\ \E piece \in PieceInputs :
          /\ Precheck(piece) = "ok"
          /\ \E s \in Squares(piece) : s \in Cells
          /\ \E s \in Squares(piece) : s[1] < 0 \/ s[2] < 0
          /\ MaybePlace(piece).ret = "false"
    /\ \E piece \in PieceInputs :
          /\ Precheck(piece) = "ok" /\ ~AnyCollisions(piece)
          /\ ~ (CardinalNeighbors(piece) \subseteq Cells)
          /\ ~ (IntercardinalNeighbors(piece) \subseteq Cells)
          /\ legal_to_place(piece) \in {"true", "false"}


C19_EveryScanRestoresCursor ==
    \A o \in {Retire, GameOverProperty} \cup {MaybePlace(piece) : piece \in PieceInputs} :
        \A i \in 1..Len(o.scans) : o.scans[i].after = o.scans[i].before


(* The edges and corners rule with the neighbours off the board skipped    *)
(* instead of clamped, and the legality rule built on it.                  *)
EdgesAndCornersSkipping(piece) ==
    /\ ~ \E e \in CardinalNeighbors(piece) :
            e \in Cells /\ grid[e[1]][e[2]][1] = curr_player
    /\ \E c \in IntercardinalNeighbors(piece) :
            c \in Cells /\ grid[c[1]][c[2]][1] = curr_player

LegalToPlaceSkipping(piece) ==
    IF AnyCollisions(piece) THEN FALSE
    ELSE IF Len(shapes_played[curr_player]) <= 0 THEN TouchesStart(piece)
    ELSE EdgesAndCornersSkipping(piece)

(* A neighbour coordinate of the piece lies off the board and the cell it  *)
(* is clamped to is the current player's.                                  *)
ClampHit(piece) ==
    \E n \in (CardinalNeighbors(piece) \cup IntercardinalNeighbors(piece)) \ Cells :
        grid[Clamp(n[1])][Clamp(n[2])][1] = curr_player

(* C20, as amended: clamping never changes the answer.  In every reachable *)
(* state and for every anchored piece of a kind the current player holds,  *)
(* legal_to_place with clamped neighbour lookups gives the same answer as  *)
(* the rule that skips the neighbours off the board.                       *)
C20_ClampNeverChangesAnswer ==
    \A piece \in PieceInputs :
        Precheck(piece) = "ok" => (LegalToPlace(piece) <=> LegalToPlaceSkipping(piece))

(* C20, as stated: clamping affects legality at the border.  Where a       *)
(* collision-free piece of a current player who has played has a neighbour *)
(* off the board that is clamped onto an own cell, legal_to_place answers  *)
(* differently from the rule that skips that neighbour.                    *)
C20_ClampChangesAnswer ==
    \A piece \in PieceInputs :
        (/\ Precheck(piece) = "ok" /\ PlacedCount(curr_player) > 0
         /\ ~AnyCollisions(piece) /\ ClampHit(piece))
            => (LegalToPlace(piece) # LegalToPlaceSkipping(piece))

(* The current player has played, and a collision-free piece at the border *)
(* has a neighbour off the board that is clamped onto an own cell.         *)
C20_Witness ==
    /\ curr_player \notin retired /\ PlacedCount(curr_player) > 0
    /\ \E piece \in PieceInputs :
          /\ Precheck(piece) = "ok" /\ ~AnyCollisions(piece) /\ ClampHit(piece)
          /\ MaybePlace(piece).ret = "false"


(***************************************************************************)
(* progress_turn, statement by statement.  A call is entered from          *)
(* maybe_place or retire, its two callers, once their own assignments are  *)
(* made; then the cursor is stepped once, and the while loop tests its     *)
(* condition and steps the cursor again until the condition fails.         *)
(***************************************************************************)
(* A loop condition that leaves game_over out. *)
WhileTestWithoutGameOver(c) ==
    [enter |-> c \in retired \/ RemainingShapes(shapes_played, c) = {}, cur |-> c]

(* The loop condition: whether the body is entered, and the cursor the     *)
(* evaluation leaves; game_over is evaluated only when the cursor is       *)
(* retired or out of shapes.                                               *)
WhileTest(c) ==
    IF c \in retired \/ RemainingShapes(shapes_played, c) = {}
    THEN LET go == GameOver(num_players, shapes_played, retired, c)
         IN  [enter |-> ~go.res, cur |-> go.cur]
    ELSE [enter |-> FALSE, cur |-> c]

TurnInit == Init

(* The assignments of a call that reaches progress_turn, up to that call. *)
EnterProgressTurn(o) ==
    /\ turn_pc = "idle"
    /\ grid' = GridAfter(o)
    /\ shapes_played' = PlayedAfter(o)
    /\ retired' = RetiredAfter(o)
    /\ turn_pc' = "advance" /\ moves' = 0
    /\ UNCHANGED <<num_players, start_positions, curr_player,
                   text_vars, tui_vars, bot_vars>>

MaybePlaceEnters ==
    \E o \in {MaybePlace(piece) : piece \in PieceInputs} :
        o.ret = "true" /\ EnterProgressTurn(o)

RetireEnters == EnterProgressTurn(Retire)

TurnAdvance ==
    /\ turn_pc = "advance"
    /\ curr_player' = (curr_player % num_players) + 1
    /\ moves' = moves + 1
    /\ turn_pc' = "while"
    /\ UNCHANGED <<num_players, start_positions, shapes_played, grid, retired,
                   text_vars, tui_vars, bot_vars>>

(* One evaluation of the loop condition, with the body when it is entered.  *)
(* The counter is followed up to one step past the number of players.      *)
TurnWhile ==
    /\ turn_pc = "while" /\ moves <= num_players
    /\ LET test == WhileTest(curr_player)
       IN  IF test.enter
           THEN /\ curr_player' = (test.cur % num_players) + 1
                /\ moves' = moves + 1
                /\ turn_pc' = "while"
           ELSE /\ curr_player' = test.cur
                /\ moves' = moves
                /\ turn_pc' = "idle"
    /\ UNCHANGED <<num_players, start_positions, shapes_played, grid, retired,
                   text_vars, tui_vars, bot_vars>>

TurnNext ==
    \/ MaybePlaceEnters
    \/ RetireEnters
    \/ TurnAdvance
    \/ TurnWhile

(* Once entered, the call runs on: no statement of it waits for anything. *)
TurnSpec ==
    TurnInit /\ [][TurnNext]_vars /\ WF_vars(TurnAdvance) /\ WF_vars(TurnWhile)

(* C21: every call of progress_turn returns, in every state the calls can  *)
(* reach, those with every player retired or out of shapes included, and   *)
(* the call assigns the cursor at most num_players times (the first step   *)
(* and the steps of the loop body).                                        *)
C21_ProgressTurnTerminates ==
    /\ (turn_pc # "idle") ~> (turn_pc = "idle")
    /\ [](moves <= num_players)

(* A call in a two-player game has returned after stepping the cursor      *)
(* twice: past a retired player and back to the caller, who has placed a   *)
(* piece and holds a kind.                                                 *)
C21_Witness ==
    /\ num_players = 2 /\ turn_pc = "idle" /\ moves = 2
    /\ ~AllDone /\ Occupied # {}
    /\ curr_player \notin retired


(***************************************************************************)
(* bot.py.  One game of run_bot_simulation: a two-player engine and a bot  *)
(* per player that holds nothing but a reference to it.  The strategy of a *)
(* bot is drawn afresh at every turn, which covers every assignment of     *)
(* strategies to the players.                                              *)
(***************************************************************************)
Strategies == {"S", "N", "U"}

(* The players of a simulation: the keys of the bots dictionary. *)
Bots == {1, 2}

(* The number of games of a simulation (--num_games). *)
NumGames == 2

(* len(piece.squares()), which is len(piece.shape.squares) *)
PieceSize(m) == Cardinality(Squares(m))

(* The pieces a bot may pass to maybe_place: any available move (N), or    *)
(* an available move of the smallest (U) or the largest (S) size.          *)
BotChoice(strategy) ==
    CASE strategy = "N" -> AvailableMoves
      [] strategy = "U" ->
            {m \in AvailableMoves : \A x \in AvailableMoves : PieceSize(m) <= PieceSize(x)}
      [] strategy = "S" ->
            {m \in AvailableMoves : \A x \in AvailableMoves : PieceSize(x) <= PieceSize(m)}

(* place_piece of a bot: retire when there is no available move, else      *)
(* maybe_place of a chosen one.                                            *)
BotPlacePiece(strategy) ==
    IF AvailableMoves = {} THEN {Retire}
    ELSE {MaybePlace(m) : m \in BotChoice(strategy)}

BotInit ==
    /\ num_players = Cardinality(Bots)
    /\ start_positions = StartPositions
    /\ curr_player = 1
    /\ shapes_played = [p \in 1..num_players |-> <<>>]
    /\ grid = [x \in Coords |-> [y \in Coords |-> NoCell]]
    /\ retired = {}
    /\ snapshot = <<>> /\ text = NoText /\ parsed = NotParsed
    /\ turn_pc = "idle" /\ moves = 0
    /\ tui_piece = NoPiece /\ placed_pieces = <<>> /\ tui_running = FALSE
    /\ bot_pc = "loop" /\ game = 0
    /\ wins_count = [key \in Bots |-> 0] /\ ties_count = 0

(* One iteration: game_over is read as false, and the bot of the current   *)
(* player takes its turn.                                                  *)
BotIteration ==
    /\ bot_pc = "loop"
    /\ GameOverProperty.ret = "false"
    /\ curr_player \in Bots
    /\ \E strategy \in Strategies : \E o \in BotPlacePiece(strategy) : Becomes(o)

(* The loop ends when game_over is read as true; winners is read next and *)
(* the game is tallied as a tie or as a win of the first winner.           *)
BotExit ==
    /\ bot_pc = "loop"
    /\ GameOverProperty.ret = "true"
    /\ curr_player' = WinnersProperty.cur
    /\ LET winners == WinnersProperty.ret.list
       IN  IF Len(winners) >= Cardinality(Bots)
           THEN ties_count' = ties_count + 1 /\ UNCHANGED wins_count
           ELSE /\ wins_count' = [wins_count EXCEPT ![winners[1]] = @ + 1]
                /\ UNCHANGED ties_count
    /\ bot_pc' = "done"
    /\ UNCHANGED <<num_players, start_positions, shapes_played, grid, retired, game,
                   text_vars, turn_vars, tui_vars>>

(* The next game of the simulation starts on a new engine. *)
BotNewGame ==
    /\ bot_pc = "done" /\ game + 1 < NumGames
    /\ game' = game + 1
    /\ num_players' = Cardinality(Bots)
    /\ start_positions' = StartPositions
    /\ curr_player' = 1
    /\ shapes_played' = [p \in 1..Cardinality(Bots) |-> <<>>]
    /\ grid' = [x \in Coords |-> [y \in Coords |-> NoCell]]
    /\ retired' = {}
    /\ bot_pc' = "loop"
    /\ UNCHANGED <<wins_count, ties_count, text_vars, turn_vars, tui_vars>>

BotNext == BotIteration \/ BotExit \/ BotNewGame

(* The simulation is a running loop: it takes its next step. *)
BotSpec == BotInit /\ [][BotNext]_vars /\ WF_vars(BotNext)

(* What one turn of a bot does, for every strategy and every piece it may  *)
(* pick: one kind is appended to the current player's played-list and the  *)
(* retired set stays, or the current player joins the retired set and the  *)
(* played-lists stay.                                                      *)
BotTurnProgresses ==
    \A strategy \in Strategies : \A o \in BotPlacePiece(strategy) :
        \/ Len(o.appends) = 1 /\ o.retires = {}
        \/ /\ o.appends = <<>>
           /\ o.retires = {curr_player} /\ curr_player \notin retired

WinnersList == WinnersProperty.ret.list

(* C23: once game_over is true it is true after every further call         *)
(* (maybe_place with any piece, retire, game_over, winners), and no such   *)
(* call changes a grid cell or a played-list, so that every player's       *)
(* get_score and the winners list stay what they were.                     *)
C23_GameOverIsAbsorbing ==
    [][(GameOverProperty.ret = "true") =>
          /\ (GameOverProperty.ret = "true")'
          /\ grid' = grid
          /\ shapes_played' = shapes_played
          /\ \A p \in 1..num_players : GetScore(p)' = GetScore(p)
          /\ WinnersList' = WinnersList]_vars

(* A player has retired after the game was over: the player has played    *)
(* every kind, and only the end of the game puts the cursor on such a      *)
(* player.                                                                 *)
C23_Witness ==
    /\ AllDone /\ Occupied # {}
    /\ \E p \in retired : RemainingShapes(shapes_played, p) = {}


(* Two cells of the board that share an edge. *)
EdgeAdjacent(c, d) ==
    \/ c[1] = d[1] /\ (c[2] - d[2] = 1 \/ d[2] - c[2] = 1)
    \/ c[2] = d[2] /\ (c[1] - d[1] = 1 \/ d[1] - c[1] = 1)

(* C24: any two cells of the grid that share an edge and are owned by the  *)
(* same player carry the same kind, and the cells that carry one kind of   *)
(* one player are the squares of one piece of that kind: two pieces of a   *)
(* player never touch along an edge, at the border of the board or         *)
(* elsewhere.                                                              *)
C24_OwnPiecesNeverShareAnEdge ==
    /\ \A c \in Occupied : \A d \in Occupied :
          (EdgeAdjacent(c, d) /\ grid[c[1]][c[2]][1] = grid[d[1]][d[2]][1])
              => grid[c[1]][c[2]][2] = grid[d[1]][d[2]][2]
    /\ \A p \in 1..num_players : \A k \in Kinds :
          Cardinality({c \in Occupied : grid[c[1]][c[2]] = <<p, k>>})
              \in {0, Cardinality(Canonical(k))}

(* A player has two pieces on the board, the domino along the border, and  *)
(* a further piece of the current player that collides with nothing is     *)
(* refused for touching an own cell along an edge.                         *)
C24_Witness ==
    /\ \E p \in 1..num_players :
          /\ PlacedCount(p) = 2
          /\ \E c \in Occupied, d \in Occupied :
                /\ EdgeAdjacent(c, d) /\ c[1] = 0 /\ d[1] = 0
                /\ grid[c[1]][c[2]][1] = p /\ grid[d[1]][d[2]][1] = p
    /\ curr_player \notin retired
    /\ \E piece \in PieceInputs :
          /\ Precheck(piece) = "ok" /\ NoCollision(piece)
          /\ OwnEdgeTouch(piece) /\ MaybePlace(piece).ret = "false"


(* C25: in every state that maybe_place and retire calls reach and in      *)
(* which the game is over, the cursor is on the last player, num_players,  *)
(* where the scan of game_over left it, whoever moved last.                *)
C25_CursorOnLastPlayerWhenOver ==
    AllDone => curr_player = num_players

(* A two-player game has ended with a move of player 1: player 2 retired   *)
(* with nothing placed, and player 1 has since played every kind.          *)
C25_Witness ==
    /\ num_players = 2 /\ AllDone
    /\ retired = {2} /\ PlacedCount(2) = 0
    /\ RemainingShapes(shapes_played, 1) = {}


(***************************************************************************)
(* tui.py.  A BlokusTUI on a "mini" game: one action per key that          *)
(* handle_user_input acts on, each followed by the draw_board that ends    *)
(* the turn of the loop.  A key that finds no pending piece, other than a  *)
(* shape key or Escape, changes nothing.                                   *)
(***************************************************************************)
(* The model follows the keys while at most this many cells of            *)
(* placed_pieces are empty in the grid.                                    *)
MaxPhantoms == 0

(* getch returns the next key: the loop of handle_user_input is running. *)
KeyRead ==
    /\ tui_running
    /\ Cardinality((DOMAIN placed_pieces) \ Occupied) <= MaxPhantoms

(* draw_board raises where any_collisions does: it is called for a pending *)
(* piece with a square on the board.                                       *)
DrawBoardRaises(piece, played, c) ==
    /\ piece # NoPiece
    /\ Squares(piece) \cap Cells # {}
    /\ piece.kind \notin RemainingShapes(played, c)

(* The state a key handler with engine outcome o leaves, then draw_board:  *)
(* a raise ends the loop; otherwise the board is drawn and game_over is    *)
(* read.                                                                   *)
TuiBecomes(o, piece, placed) ==
    LET played == PlayedAfter(o)
        rtd    == RetiredAfter(o)
        raises == \/ o.ret \in {"raise_unanchored", "raise_invalid_piece"}
                  \/ DrawBoardRaises(piece, played, o.cur)
    IN  /\ grid' = GridAfter(o)
        /\ shapes_played' = played
        /\ retired' = rtd
        /\ curr_player' =
              IF raises THEN o.cur ELSE GameOver(num_players, played, rtd, o.cur).cur
        /\ tui_piece' = piece
        /\ placed_pieces' = placed
        /\ tui_running' = ~raises
        /\ UNCHANGED <<num_players, start_positions, text_vars, turn_vars, bot_vars>>

TuiInit ==
    /\ num_players \in 1..MaxPlayers
    /\ start_positions = StartPositions
    /\ curr_player = 1
    /\ shapes_played = [p \in 1..num_players |-> <<>>]
    /\ grid = [x \in Coords |-> [y \in Coords |-> NoCell]]
    /\ retired = {}
    /\ snapshot = <<>> /\ text = NoText /\ parsed = NotParsed
    /\ turn_pc = "idle" /\ moves = 0
    /\ tui_piece = NoPiece /\ placed_pieces = <<>> /\ tui_running = TRUE
    /\ bot_pc = "none" /\ game = 0 /\ wins_count = <<>> /\ ties_count = 0

(* choose_piece *)
ChoosePiece(shape_key) ==
    IF RemainingShapes(shapes_played, curr_player) = {} THEN NoPiece
    ELSE IF shape_key \in RemainingShapes(shapes_played, curr_player)
         THEN SetAnchor(NewPiece(shape_key), <<Size \div 2, Size \div 2>>)
         ELSE tui_piece

KeyShape ==
    /\ KeyRead
    /\ \E shape_key \in Kinds :
          TuiBecomes(Untouched("none"), ChoosePiece(shape_key), placed_pieces)

(* The arrow keys; the anchor is followed up to AnchorMargin cells off the *)
(* board.                                                                  *)
KeyArrow ==
    /\ KeyRead /\ tui_piece # NoPiece
    /\ \E d \in {<<-1, 0>>, <<1, 0>>, <<0, -1>>, <<0, 1>>} :
          LET point == <<tui_piece.anchor[1] + d[1], tui_piece.anchor[2] + d[2]>>
          IN  /\ point \in AnchorInputs
              /\ TuiBecomes(Untouched("none"), SetAnchor(tui_piece, point),
                            placed_pieces)

KeyTurn ==
    /\ KeyRead /\ tui_piece # NoPiece
    /\ \E offs \in {RotateRight(tui_piece.offs), RotateLeft(tui_piece.offs),
                    FlipHorizontally(tui_piece.offs)} :
          TuiBecomes(Untouched("none"), [tui_piece EXCEPT !.offs = offs],
                     placed_pieces)

(* Enter: place_piece.  The colour is the current player's before the      *)
(* call; when maybe_place returns true every square of the pending piece   *)
(* is entered in placed_pieces and the pending piece is dropped.           *)
KeyEnter ==
    /\ KeyRead /\ tui_piece # NoPiece
    /\ LET color == curr_player
           o     == MaybePlace(tui_piece)
       IN  IF o.ret = "true"
           THEN TuiBecomes(o, NoPiece,
                    [square \in (DOMAIN placed_pieces) \cup Squares(tui_piece) |->
                        IF square \in Squares(tui_piece) THEN color
                        ELSE placed_pieces[square]])
           ELSE TuiBecomes(o, tui_piece, placed_pieces)

(* q: retire, with a pending piece only *)
KeyRetire ==
    /\ KeyRead /\ tui_piece # NoPiece
    /\ TuiBecomes(Retire, NoPiece, placed_pieces)

KeyEscape ==
    /\ KeyRead
    /\ tui_running' = FALSE
    /\ UNCHANGED <<game_vars, text_vars, turn_vars, bot_vars, tui_piece, placed_pieces>>

TuiNext ==
    \/ KeyShape
    \/ KeyArrow
    \/ KeyTurn
    \/ KeyEnter
    \/ KeyRetire
    \/ KeyEscape

TuiSpec == TuiInit /\ [][TuiNext]_vars

(* C26: after any sequence of keys the keys of placed_pieces are the       *)
(* occupied cells of the engine's grid: a cell is recorded as placed only  *)
(* if maybe_place wrote it, also when Enter is pressed for a retired       *)
(* current player after the game is over.                                  *)
C26_PlacedPiecesMatchGrid == DOMAIN placed_pieces = Occupied


(***************************************************************************)
(* Games on other start positions than the "mini" mode's: the constructor  *)
(* accepts any set of cells of the board that has at least num_players     *)
(* members.                                                                *)
(***************************************************************************)
StartInputs == {StartPositions, {<<0, 0>>, <<0, 1>>}}

SetupInit ==
    /\ num_players \in 1..MaxPlayers
    /\ start_positions \in StartInputs
    /\ Cardinality(start_positions) >= num_players
    /\ start_positions \subseteq Cells
    /\ curr_player = 1
    /\ shapes_played = [p \in 1..num_players |-> <<>>]
    /\ grid = [x \in Coords |-> [y \in Coords |-> NoCell]]
    /\ retired = {}
    /\ snapshot = <<>> /\ text = NoText /\ parsed = NotParsed
    /\ turn_pc = "idle" /\ moves = 0
    /\ tui_piece = NoPiece /\ placed_pieces = <<>> /\ tui_running = FALSE
    /\ bot_pc = "none" /\ game = 0 /\ wins_count = <<>> /\ ties_count = 0

SetupSpec == SetupInit /\ [][PlayNext]_vars

(* The start positions whose cell is empty. *)
EmptyStarts == {s \in start_positions : grid[s[1]][s[2]] = NoCell}

(* C27: while the game is not over and the current player has played no    *)
(* shape, every empty start position gives an available move, the 1-square *)
(* shape anchored on it, so that available_moves is not empty when a start *)
(* position is empty; when every start position is occupied, a current     *)
(* player who has played no shape has no available move and no legal       *)
(* placement of any piece in any orientation at any anchor.                *)
C27_FirstMoveAvailability ==
    PlacedCount(curr_player) = 0 =>
        /\ ~AllDone =>
              /\ \A s \in EmptyStarts : SetAnchor(NewPiece("ONE"), s) \in AvailableMoves
              /\ EmptyStarts # {} => AvailableMoves # {}
        /\ EmptyStarts = {} =>
              /\ AvailableMoves = {}
              /\ \A piece \in PieceInputs :
                    Precheck(piece) = "ok" => ~LegalToPlace(piece)

(* The game is not over and it is the turn of a player who has played      *)
(* nothing and is not retired, while pieces of another player cover every  *)
(* start position.                                                         *)
C27_Witness ==
    /\ ~AllDone /\ curr_player \notin retired
    /\ PlacedCount(curr_player) = 0
    /\ EmptyStarts = {}
    /\ AvailableMoves = {}

=============================================================================
